---- MODULE Spec2Model ----
(***************************************************************************)
(* Content-type classification of stump's core                             *)
(* (core/src/filesystem/content_type.rs).                                  *)
(*                                                                         *)
(* Strings are sequences of one-character strings, so that lowercasing,    *)
(* prefix tests and table lookups are computed character by character.     *)
(* Option<T> is a set with at most one element: None is {}, Some(x) is {x}.*)
(* A byte is a number in 0..255.                                           *)
(***************************************************************************)
EXTENDS Integers, Sequences, FiniteSets, TLC

VARIABLES op, arg, ret, error, log

vars == <<op, arg, ret, error, log>>

(* Longest byte buffer handed to the sniffer. *)
MaxBytesLen == 4

-----------------------------------------------------------------------------
(* Strings *)

UpperAlpha ==
    <<"A","B","C","D","E","F","G","H","I","J","K","L","M",
      "N","O","P","Q","R","S","T","U","V","W","X","Y","Z">>

LowerAlpha ==
    <<"a","b","c","d","e","f","g","h","i","j","k","l","m",
      "n","o","p","q","r","s","t","u","v","w","x","y","z">>

(* char::to_lowercase on the characters used here: an upper-case letter    *)
(* becomes its lower-case letter, anything else is unchanged.              *)
LowerChar(c) ==
    IF \E i \in 1..Len(UpperAlpha) : UpperAlpha[i] = c
    THEN LowerAlpha[CHOOSE i \in 1..Len(UpperAlpha) : UpperAlpha[i] = c]
    ELSE c

UpperChar(c) ==
    IF \E i \in 1..Len(LowerAlpha) : LowerAlpha[i] = c
    THEN UpperAlpha[CHOOSE i \in 1..Len(LowerAlpha) : LowerAlpha[i] = c]
    ELSE c

(* str::to_lowercase *)
to_lowercase(s) == [i \in 1..Len(s) |-> LowerChar(s[i])]

to_uppercase(s) == [i \in 1..Len(s) |-> UpperChar(s[i])]

(* str::starts_with, also used on byte slices *)
starts_with(s, prefix) ==
    /\ Len(s) >= Len(prefix)
    /\ \A i \in 1..Len(prefix) : s[i] = prefix[i]

(* Option helpers *)
None == {}

Some(x) == {x}

unwrap(o) == CHOOSE x \in o : TRUE

(* Result helpers *)
Ok(x) == [ok |-> TRUE, val |-> x]

Err(e) == [ok |-> FALSE, err |-> e]

-----------------------------------------------------------------------------
(* Type vocabulary *)

ContentType ==
    {"XHTML", "XML", "HTML", "PDF", "EPUB_ZIP", "ZIP", "COMIC_ZIP", "RAR",
     "COMIC_RAR", "PNG", "JPEG", "WEBP", "AVIF", "GIF", "TXT", "UNKNOWN"}

(* #[default] *)
Default == "UNKNOWN"

(* super::image::ImageFormat, as matched exhaustively by From<ImageFormat> *)
ImageFormat == {"Jpeg", "Png", "Webp", "Avif"}

-----------------------------------------------------------------------------
(* MIME codec *)

(* impl Display for ContentType *)
fmt(self) ==
    CASE self = "XHTML" -> <<"a","p","p","l","i","c","a","t","i","o","n","/","x","h","t","m","l","+","x","m","l">>
      [] self = "XML" -> <<"a","p","p","l","i","c","a","t","i","o","n","/","x","m","l">>
      [] self = "HTML" -> <<"t","e","x","t","/","h","t","m","l">>
      [] self = "PDF" -> <<"a","p","p","l","i","c","a","t","i","o","n","/","p","d","f">>
      [] self = "EPUB_ZIP" -> <<"a","p","p","l","i","c","a","t","i","o","n","/","e","p","u","b","+","z","i","p">>
      [] self = "ZIP" -> <<"a","p","p","l","i","c","a","t","i","o","n","/","z","i","p">>
      [] self = "COMIC_ZIP" -> <<"a","p","p","l","i","c","a","t","i","o","n","/","v","n","d",".","c","o","m","i","c","b","o","o","k","+","z","i","p">>
      [] self = "RAR" -> <<"a","p","p","l","i","c","a","t","i","o","n","/","v","n","d",".","r","a","r">>
      [] self = "COMIC_RAR" -> <<"a","p","p","l","i","c","a","t","i","o","n","/","v","n","d",".","c","o","m","i","c","b","o","o","k","-","r","a","r">>
      [] self = "PNG" -> <<"i","m","a","g","e","/","p","n","g">>
      [] self = "JPEG" -> <<"i","m","a","g","e","/","j","p","e","g">>
      [] self = "WEBP" -> <<"i","m","a","g","e","/","w","e","b","p">>
      [] self = "AVIF" -> <<"i","m","a","g","e","/","a","v","i","f">>
      [] self = "GIF" -> <<"i","m","a","g","e","/","g","i","f">>
      [] self = "TXT" -> <<"t","e","x","t","/","p","l","a","i","n">>
      [] self = "UNKNOWN" -> <<"u","n","k","n","o","w","n">>

(* ContentType::mime_type *)
mime_type(self) == fmt(self)

(* impl From<&str> for ContentType *)
from_str(str) ==
    LET s == to_lowercase(str) IN
    CASE s = <<"a","p","p","l","i","c","a","t","i","o","n","/","x","h","t","m","l","+","x","m","l">> -> "XHTML"
      [] s = <<"a","p","p","l","i","c","a","t","i","o","n","/","x","m","l">> -> "XML"
      [] s = <<"t","e","x","t","/","h","t","m","l">> -> "HTML"
      [] s = <<"a","p","p","l","i","c","a","t","i","o","n","/","p","d","f">> -> "PDF"
      [] s = <<"a","p","p","l","i","c","a","t","i","o","n","/","e","p","u","b","+","z","i","p">> -> "EPUB_ZIP"
      [] s = <<"a","p","p","l","i","c","a","t","i","o","n","/","z","i","p">> -> "ZIP"
      [] s = <<"a","p","p","l","i","c","a","t","i","o","n","/","v","n","d",".","c","o","m","i","c","b","o","o","k","+","z","i","p">> -> "COMIC_ZIP"
      [] s = <<"a","p","p","l","i","c","a","t","i","o","n","/","v","n","d",".","r","a","r">> -> "RAR"
      [] s = <<"a","p","p","l","i","c","a","t","i","o","n","/","v","n","d",".","c","o","m","i","c","b","o","o","k","-","r","a","r">> -> "COMIC_RAR"
      [] s = <<"i","m","a","g","e","/","p","n","g">> -> "PNG"
      [] s = <<"i","m","a","g","e","/","j","p","e","g">> -> "JPEG"
      [] s = <<"i","m","a","g","e","/","w","e","b","p">> -> "WEBP"
      [] s = <<"i","m","a","g","e","/","a","v","i","f">> -> "AVIF"
      [] s = <<"i","m","a","g","e","/","g","i","f">> -> "GIF"
      [] OTHER -> "UNKNOWN"

-----------------------------------------------------------------------------
(* Extension resolver *)

temporary_content_workarounds(extension) ==
    IF extension = <<"o","p","f">> \/ extension = <<"n","c","x">>
    THEN "XML"
    ELSE "UNKNOWN"

(* from_extension with the "jpeg" arm left out *)
from_extension_no_jpeg(extension) ==
    LET s == to_lowercase(extension) IN
    CASE s = <<"x","h","t","m","l">> -> "XHTML"
      [] s = <<"x","m","l">> -> "XML"
      [] s = <<"h","t","m","l">> -> "HTML"
      [] s = <<"p","d","f">> -> "PDF"
      [] s = <<"e","p","u","b">> -> "EPUB_ZIP"
      [] s = <<"z","i","p">> -> "ZIP"
      [] s = <<"c","b","z">> -> "COMIC_ZIP"
      [] s = <<"r","a","r">> -> "RAR"
      [] s = <<"c","b","r">> -> "COMIC_RAR"
      [] s = <<"p","n","g">> -> "PNG"
      [] s = <<"j","p","g">> -> "JPEG"
      [] s = <<"w","e","b","p">> -> "WEBP"
      [] s = <<"a","v","i","f">> -> "AVIF"
      [] s = <<"g","i","f">> -> "GIF"
      [] s = <<"t","x","t">> -> "TXT"
      [] OTHER -> temporary_content_workarounds(extension)

from_extension(extension) ==
    LET s == to_lowercase(extension) IN
    CASE s = <<"x","h","t","m","l">> -> "XHTML"
      [] s = <<"x","m","l">> -> "XML"
      [] s = <<"h","t","m","l">> -> "HTML"
      [] s = <<"p","d","f">> -> "PDF"
      [] s = <<"e","p","u","b">> -> "EPUB_ZIP"
      [] s = <<"z","i","p">> -> "ZIP"
      [] s = <<"c","b","z">> -> "COMIC_ZIP"
      [] s = <<"r","a","r">> -> "RAR"
      [] s = <<"c","b","r">> -> "COMIC_RAR"
      [] s = <<"p","n","g">> -> "PNG"
      [] s = <<"j","p","g">> -> "JPEG"
      [] s = <<"j","p","e","g">> -> "JPEG"
      [] s = <<"w","e","b","p">> -> "WEBP"
      [] s = <<"a","v","i","f">> -> "AVIF"
      [] s = <<"g","i","f">> -> "GIF"
      [] s = <<"t","x","t">> -> "TXT"
      [] OTHER -> temporary_content_workarounds(extension)

(* extension() with COMIC_ZIP given ZIP's extension *)
extension_cbz_as_zip(self) ==
    CASE self = "XHTML" -> <<"x","h","t","m","l">>
      [] self = "XML" -> <<"x","m","l">>
      [] self = "HTML" -> <<"h","t","m","l">>
      [] self = "PDF" -> <<"p","d","f">>
      [] self = "EPUB_ZIP" -> <<"e","p","u","b">>
      [] self = "ZIP" -> <<"z","i","p">>
      [] self = "COMIC_ZIP" -> <<"z","i","p">>
      [] self = "RAR" -> <<"r","a","r">>
      [] self = "COMIC_RAR" -> <<"c","b","r">>
      [] self = "PNG" -> <<"p","n","g">>
      [] self = "JPEG" -> <<"j","p","g">>
      [] self = "WEBP" -> <<"w","e","b","p">>
      [] self = "AVIF" -> <<"a","v","i","f">>
      [] self = "GIF" -> <<"g","i","f">>
      [] self = "TXT" -> <<"t","x","t">>
      [] self = "UNKNOWN" -> <<>>

(* ContentType::extension *)
extension(self) ==
    CASE self = "XHTML" -> <<"x","h","t","m","l">>
      [] self = "XML" -> <<"x","m","l">>
      [] self = "HTML" -> <<"h","t","m","l">>
      [] self = "PDF" -> <<"p","d","f">>
      [] self = "EPUB_ZIP" -> <<"e","p","u","b">>
      [] self = "ZIP" -> <<"z","i","p">>
      [] self = "COMIC_ZIP" -> <<"c","b","z">>
      [] self = "RAR" -> <<"r","a","r">>
      [] self = "COMIC_RAR" -> <<"c","b","r">>
      [] self = "PNG" -> <<"p","n","g">>
      [] self = "JPEG" -> <<"j","p","g">>
      [] self = "WEBP" -> <<"w","e","b","p">>
      [] self = "AVIF" -> <<"a","v","i","f">>
      [] self = "GIF" -> <<"g","i","f">>
      [] self = "TXT" -> <<"t","x","t">>
      [] self = "UNKNOWN" -> <<>>

-----------------------------------------------------------------------------
(* Capability predicates *)

(* is_image testing the three OPDS formats only *)
is_image_legacy_only(self) ==
    self = "PNG" \/ self = "JPEG" \/ self = "GIF"

is_image(self) == starts_with(fmt(self), <<"i","m","a","g","e">>)

(* is_opds_legacy_image accepting every image *)
is_opds_legacy_image_any_image(self) ==
    starts_with(fmt(self), <<"i","m","a","g","e">>)

is_opds_legacy_image(self) ==
    self = "PNG" \/ self = "JPEG" \/ self = "GIF"

is_zip(self) == self = "ZIP" \/ self = "COMIC_ZIP"

is_rar(self) == self = "RAR" \/ self = "COMIC_RAR"

is_epub(self) == self = "EPUB_ZIP"

-----------------------------------------------------------------------------
(* Interop adapter *)

(* impl From<ImageFormat> for ContentType *)
from_image_format(format) ==
    CASE format = "Jpeg" -> "JPEG"
      [] format = "Png" -> "PNG"
      [] format = "Webp" -> "WEBP"
      [] format = "Avif" -> "AVIF"

(* format!: the message is the text before the type name, the type name    *)
(* (two pieces, "ContentType::" and the variant) and the text after it,    *)
(* concatenated.                                                           *)
unsupported_error(unsupported_type) ==
    [kind |-> "InternalError",
     message |-> <<"Cannot convert ">> \o unsupported_type
                     \o <<" into image::ImageFormat, not supported.">>]

(* try_from rejecting GIF *)
try_from_no_gif(value) ==
    CASE value = "PNG" -> Ok("Png")
      [] value = "JPEG" -> Ok("Jpeg")
      [] value = "WEBP" -> Ok("WebP")
      [] value = "AVIF" -> Ok("Avif")
      [] value = "GIF" -> Err(unsupported_error(<<"ContentType::", "GIF">>))
      [] value = "XHTML" -> Err(unsupported_error(<<"ContentType::", "XHTML">>))
      [] value = "XML" -> Err(unsupported_error(<<"ContentType::", "XML">>))
      [] value = "HTML" -> Err(unsupported_error(<<"ContentType::", "HTML">>))
      [] value = "PDF" -> Err(unsupported_error(<<"ContentType::", "PDF">>))
      [] value = "EPUB_ZIP" -> Err(unsupported_error(<<"ContentType::", "EPUB_ZIP">>))
      [] value = "ZIP" -> Err(unsupported_error(<<"ContentType::", "ZIP">>))
      [] value = "COMIC_ZIP" -> Err(unsupported_error(<<"ContentType::", "COMIC_ZIP">>))
      [] value = "RAR" -> Err(unsupported_error(<<"ContentType::", "RAR">>))
      [] value = "COMIC_RAR" -> Err(unsupported_error(<<"ContentType::", "COMIC_RAR">>))
      [] value = "TXT" -> Err(unsupported_error(<<"ContentType::", "TXT">>))
      [] value = "UNKNOWN" -> Err(unsupported_error(<<"ContentType::", "UNKNOWN">>))

(* impl TryFrom<ContentType> for image::ImageFormat *)
try_from(value) ==
    CASE value = "PNG" -> Ok("Png")
      [] value = "JPEG" -> Ok("Jpeg")
      [] value = "WEBP" -> Ok("WebP")
      [] value = "AVIF" -> Ok("Avif")
      [] value = "GIF" -> Ok("Gif")
      [] value = "XHTML" -> Err(unsupported_error(<<"ContentType::", "XHTML">>))
      [] value = "XML" -> Err(unsupported_error(<<"ContentType::", "XML">>))
      [] value = "HTML" -> Err(unsupported_error(<<"ContentType::", "HTML">>))
      [] value = "PDF" -> Err(unsupported_error(<<"ContentType::", "PDF">>))
      [] value = "EPUB_ZIP" -> Err(unsupported_error(<<"ContentType::", "EPUB_ZIP">>))
      [] value = "ZIP" -> Err(unsupported_error(<<"ContentType::", "ZIP">>))
      [] value = "COMIC_ZIP" -> Err(unsupported_error(<<"ContentType::", "COMIC_ZIP">>))
      [] value = "RAR" -> Err(unsupported_error(<<"ContentType::", "RAR">>))
      [] value = "COMIC_RAR" -> Err(unsupported_error(<<"ContentType::", "COMIC_RAR">>))
      [] value = "TXT" -> Err(unsupported_error(<<"ContentType::", "TXT">>))
      [] value = "UNKNOWN" -> Err(unsupported_error(<<"ContentType::", "UNKNOWN">>))

-----------------------------------------------------------------------------
(* Byte sniffer *)

(* infer::get of the infer crate, restricted to three of its signatures:   *)
(* PNG (89 50 4E 47, more than 3 bytes), JPEG (FF D8 FF, more than 2       *)
(* bytes) and, as a type outside the vocabulary, MP3 (FF FB, more than 2   *)
(* bytes).  The result is the matched type's MIME string.                  *)
infer_get(buf) ==
    IF Len(buf) > 3 /\ starts_with(buf, <<137, 80, 78, 71>>)
    THEN Some(<<"i","m","a","g","e","/","p","n","g">>)
    ELSE IF Len(buf) > 2 /\ starts_with(buf, <<255, 216, 255>>)
    THEN Some(<<"i","m","a","g","e","/","j","p","e","g">>)
    ELSE IF Len(buf) > 2 /\ starts_with(buf, <<255, 251>>)
    THEN Some(<<"a","u","d","i","o","/","m","p","e","g">>)
    ELSE None

(* infer::get_from_path: an I/O error when the file cannot be read,        *)
(* otherwise the sniffer's verdict on what was read.                       *)
infer_get_from_path(path) ==
    IF path.file = None
    THEN Err("io")
    ELSE Ok(infer_get(unwrap(path.file)))

infer_mime_from_bytes(bytes) == infer_get(bytes)

infer_mime(path) ==
    LET r == infer_get_from_path(path) IN
    IF r.ok
    THEN [val |-> r.val,
          log |-> <<[level |-> "trace", message |-> "inferred mime"]>>]
    ELSE [val |-> None,
          log |-> <<[level |-> "trace", message |-> "infer failed"]>>]

-----------------------------------------------------------------------------
(* Paths: what the file system holds at the path (None when the read       *)
(* fails) and the path's extension, an OsStr that may not be UTF-8.        *)

OsStr(utf8, str) == [utf8 |-> utf8, str |-> str]

(* OsStr::to_str *)
to_str(os) == IF os.utf8 THEN Some(os.str) ELSE None

(* Option::unwrap_or_default *)
unwrap_or_default(o, default) == IF o = None THEN default ELSE unwrap(o)

-----------------------------------------------------------------------------
(* Composite resolver *)

(* from_bytes mapping the sniffed MIME string through the extension table *)
from_bytes_via_extension(bytes) ==
    LET mime == infer_mime_from_bytes(bytes) IN
    IF mime # None THEN from_extension(unwrap(mime)) ELSE Default

from_bytes(bytes) ==
    LET mime == infer_mime_from_bytes(bytes) IN
    IF mime # None THEN from_str(unwrap(mime)) ELSE Default

(* from_bytes_with_fallback preferring a recognised extension *)
from_bytes_with_fallback_extension_first(bytes, ext) ==
    LET mime == infer_mime_from_bytes(bytes) IN
    IF mime # None /\ from_extension(ext) = "UNKNOWN"
    THEN [val |-> from_str(unwrap(mime)), log |-> <<>>]
    ELSE [val |-> from_extension(ext),
          log |-> <<[level |-> "warn",
                     message |-> "failed to infer content type, falling back to extension"]>>]

from_bytes_with_fallback(bytes, ext) ==
    LET mime == infer_mime_from_bytes(bytes) IN
    IF mime # None
    THEN [val |-> from_str(unwrap(mime)), log |-> <<>>]
    ELSE [val |-> from_extension(ext),
          log |-> <<[level |-> "warn",
                     message |-> "failed to infer content type, falling back to extension"]>>]

(* from_path without the extension fallback when the file cannot be read *)
from_path_no_fallback_on_error(path) ==
    LET mime == infer_mime(path) IN
    [val |-> IF mime.val # None
             THEN from_str(unwrap(mime.val))
             ELSE IF path.file = None
             THEN Default
             ELSE from_extension(
                      unwrap_or_default(
                          to_str(unwrap_or_default(path.extension, OsStr(TRUE, <<>>))),
                          <<>>)),
     log |-> mime.log]

from_path(path) ==
    LET mime == infer_mime(path) IN
    [val |-> IF mime.val # None
             THEN from_str(unwrap(mime.val))
             ELSE from_extension(
                      unwrap_or_default(
                          to_str(unwrap_or_default(path.extension, OsStr(TRUE, <<>>))),
                          <<>>)),
     log |-> mime.log]

(* Path::new(file_path): the path named by a UTF-8 string *)
from_file(file_path) == from_path(file_path)

-----------------------------------------------------------------------------
(* Inputs *)

ExtWords ==
    {<<"x","h","t","m","l">>, <<"x","m","l">>, <<"h","t","m","l">>,
     <<"p","d","f">>, <<"e","p","u","b">>, <<"z","i","p">>, <<"c","b","z">>,
     <<"r","a","r">>, <<"c","b","r">>, <<"p","n","g">>, <<"j","p","g">>,
     <<"j","p","e","g">>, <<"w","e","b","p">>, <<"a","v","i","f">>,
     <<"g","i","f">>, <<"t","x","t">>, <<"o","p","f">>, <<"n","c","x">>,
     <<"f","o","o","b","a","r">>, <<"m","p","3">>, <<>>}

(* Every upper/lower case combination of a word *)
CaseVariants(w) ==
    {[i \in 1..Len(w) |-> IF i \in U THEN UpperChar(w[i]) ELSE w[i]] :
        U \in SUBSET (1..Len(w))}

Extensions == UNION {CaseVariants(w) : w \in ExtWords}

FallbackExtensions ==
    {<<"p","n","g">>, <<"P","N","G">>, <<"o","p","f">>, <<"O","p","f">>,
     <<"f","o","o","b","a","r">>, <<>>}

MimeStrings ==
    {fmt(v) : v \in ContentType} \cup {to_uppercase(fmt(v)) : v \in ContentType}
        \cup {<<"a","u","d","i","o","/","m","p","e","g">>, <<"p","n","g">>, <<>>}

ByteAlphabet == {137, 80, 78, 71, 255, 216, 251, 187}

Buffers == UNION {[1..n -> ByteAlphabet] : n \in 0..MaxBytesLen}

Files == {None} \cup {Some(b) : b \in Buffers}

PathExtensions ==
    {None, Some(OsStr(FALSE, <<"p","n","g">>)), Some(OsStr(TRUE, <<>>)),
     Some(OsStr(TRUE, <<"p","n","g">>)), Some(OsStr(TRUE, <<"C","b","Z">>)),
     Some(OsStr(TRUE, <<"N","C","X">>))}

Paths == [file : Files, extension : PathExtensions]

(* Paths that a &str can name: the extension, if any, is UTF-8 *)
FilePaths == {p \in Paths : p.extension = None \/ unwrap(p.extension).utf8}

-----------------------------------------------------------------------------
(* State machine: the module keeps no state.  A call is made from the idle *)
(* state (op = "none") and leaves the operation, its argument, what it     *)
(* returned, the error it returned (None if it returned none) and the      *)
(* diagnostics it emitted; the caller then discards the value.             *)

Init ==
    /\ op = "none"
    /\ arg = <<>>
    /\ ret = <<>>
    /\ error = None
    /\ log = <<>>

Returns(o, a, r) ==
    /\ op' = o
    /\ arg' = a
    /\ ret' = r
    /\ error' = None
    /\ log' = <<>>

FromExtension ==
    /\ op = "none"
    /\ \E e \in Extensions : Returns("from_extension", e, from_extension(e))

FromStr ==
    /\ op = "none"
    /\ \E s \in MimeStrings : Returns("from", s, from_str(s))

Display ==
    /\ op = "none"
    /\ \E v \in ContentType : Returns("fmt", v, fmt(v))

MimeType ==
    /\ op = "none"
    /\ \E v \in ContentType : Returns("mime_type", v, mime_type(v))

Extension ==
    /\ op = "none"
    /\ \E v \in ContentType : Returns("extension", v, extension(v))

IsImage ==
    /\ op = "none"
    /\ \E v \in ContentType : Returns("is_image", v, is_image(v))

IsOpdsLegacyImage ==
    /\ op = "none"
    /\ \E v \in ContentType :
           Returns("is_opds_legacy_image", v, is_opds_legacy_image(v))

IsZip ==
    /\ op = "none"
    /\ \E v \in ContentType : Returns("is_zip", v, is_zip(v))

IsRar ==
    /\ op = "none"
    /\ \E v \in ContentType : Returns("is_rar", v, is_rar(v))

IsEpub ==
    /\ op = "none"
    /\ \E v \in ContentType : Returns("is_epub", v, is_epub(v))

FromImageFormat ==
    /\ op = "none"
    /\ \E f \in ImageFormat :
           Returns("from_image_format", f, from_image_format(f))

TryFrom ==
    /\ op = "none"
    /\ \E v \in ContentType :
           LET r == try_from(v) IN
           /\ op' = "try_from"
           /\ arg' = v
           /\ ret' = IF r.ok THEN Some(r.val) ELSE None
           /\ error' = IF r.ok THEN None ELSE Some(r.err)
           /\ log' = <<>>

FromBytes ==
    /\ op = "none"
    /\ \E b \in Buffers : Returns("from_bytes", b, from_bytes(b))

FromBytesWithFallback ==
    /\ op = "none"
    /\ \E b \in Buffers, e \in FallbackExtensions :
           LET r == from_bytes_with_fallback(b, e) IN
           /\ op' = "from_bytes_with_fallback"
           /\ arg' = [bytes |-> b, extension |-> e]
           /\ ret' = r.val
           /\ error' = None
           /\ log' = r.log

FromPath ==
    /\ op = "none"
    /\ \E p \in Paths :
           LET r == from_path(p) IN
           /\ op' = "from_path"
           /\ arg' = p
           /\ ret' = r.val
           /\ error' = None
           /\ log' = r.log

FromFile ==
    /\ op = "none"
    /\ \E p \in FilePaths :
           LET r == from_file(p) IN
           /\ op' = "from_file"
           /\ arg' = p
           /\ ret' = r.val
           /\ error' = None
           /\ log' = r.log

(* The value goes out of scope *)
Discard ==
    /\ op # "none"
    /\ op' = "none"
    /\ arg' = <<>>
    /\ ret' = <<>>
    /\ error' = None
    /\ log' = <<>>

Next ==
    \/ FromExtension
    \/ FromStr
    \/ Display
    \/ MimeType
    \/ Extension
    \/ IsImage
    \/ IsOpdsLegacyImage
    \/ IsZip
    \/ IsRar
    \/ IsEpub
    \/ FromImageFormat
    \/ TryFrom
    \/ FromBytes
    \/ FromBytesWithFallback
    \/ FromPath
    \/ FromFile
    \/ Discard

Spec == Init /\ [][Next]_vars

-----------------------------------------------------------------------------
(* Properties *)

(* Number of warn-level records among the diagnostics of the last call *)
Warnings == Cardinality({i \in 1..Len(log) : log[i].level = "warn"})

(* s occurs in t as a run of consecutive elements *)
Contains(t, s) ==
    \E k \in 0..(Len(t) - Len(s)) : \A i \in 1..Len(s) : t[k + i] = s[i]

(* The extension table as the specification lists it *)
ExpectedExtension ==
    {<<<<"x","h","t","m","l">>, "XHTML">>, <<<<"x","m","l">>, "XML">>,
     <<<<"h","t","m","l">>, "HTML">>, <<<<"p","d","f">>, "PDF">>,
     <<<<"e","p","u","b">>, "EPUB_ZIP">>, <<<<"z","i","p">>, "ZIP">>,
     <<<<"c","b","z">>, "COMIC_ZIP">>, <<<<"r","a","r">>, "RAR">>,
     <<<<"c","b","r">>, "COMIC_RAR">>, <<<<"p","n","g">>, "PNG">>,
     <<<<"j","p","g">>, "JPEG">>, <<<<"j","p","e","g">>, "JPEG">>,
     <<<<"w","e","b","p">>, "WEBP">>, <<<<"a","v","i","f">>, "AVIF">>,
     <<<<"g","i","f">>, "GIF">>, <<<<"t","x","t">>, "TXT">>}

Images == {"PNG", "JPEG", "WEBP", "AVIF", "GIF"}

(* The image crate's format bearing the same name as the variant *)
SameNamedFormat(v) ==
    CASE v = "PNG" -> "Png"
      [] v = "JPEG" -> "Jpeg"
      [] v = "WEBP" -> "WebP"
      [] v = "AVIF" -> "Avif"
      [] v = "GIF" -> "Gif"

(* C1: MIME round trip.  For every variant v other than UNKNOWN, converting *)
(* v to its canonical MIME string and that string back with From<&str>     *)
(* yields v.  Fails for TXT: "text/plain" is not in From<&str>'s table.    *)
C1_MimeRoundTrip ==
    \A v \in ContentType \ {"UNKNOWN"} :
        (op = "from" /\ arg = fmt(v)) => ret = v

(* C2: the extension lookup is case-insensitive over the whole resolver:   *)
(* from_extension(e) equals from_extension(lowercase(e)), any case variant *)
(* of opf or ncx resolves to XML, and the empty string to UNKNOWN.  Fails   *)
(* for e.g. "Opf": the workaround table is given the string as passed in.  *)
C2_CaseInsensitive ==
    op = "from_extension" =>
        /\ ret = from_extension(to_lowercase(arg))
        /\ to_lowercase(arg) \in {<<"o","p","f">>, <<"n","c","x">>} => ret = "XML"
        /\ arg = <<>> => ret = "UNKNOWN"

(* C3: from_extension computes the fixed table: a table extension in any   *)
(* case combination gives the expected variant, lowercase opf and ncx give *)
(* XML, every other string gives UNKNOWN, and no error is returned.        *)
C3_ExtensionTable ==
    op = "from_extension" =>
        LET l == to_lowercase(arg) IN
        /\ error = None
        /\ \A p \in ExpectedExtension : p[1] = l => ret = p[2]
        /\ (\A p \in ExpectedExtension : p[1] # l) =>
               IF arg \in {<<"o","p","f">>, <<"n","c","x">>}
               THEN ret = "XML"
               ELSE ret = "UNKNOWN"

C3_Witness ==
    op = "from_extension" /\ arg = <<"J","p","E","g">> /\ ret = "JPEG"

(* C4: extension round trip.  For every variant v other than UNKNOWN,       *)
(* from_extension(v.extension()) has v's canonical MIME string and is v;   *)
(* UNKNOWN's extension is the empty string, which resolves to UNKNOWN.     *)
C4_ExtensionRoundTrip ==
    /\ \A v \in ContentType \ {"UNKNOWN"} :
           (op = "from_extension" /\ arg = extension(v)) =>
               (fmt(ret) = fmt(v) /\ ret = v)
    /\ (op = "extension" /\ arg = "UNKNOWN") => ret = <<>>
    /\ (op = "from_extension" /\ arg = <<>>) => ret = "UNKNOWN"

C4_Witness ==
    op = "from_extension" /\ arg = extension("JPEG") /\ ret = "JPEG"

(* C5: in from_bytes_with_fallback the sniffer decides alone when it        *)
(* matches: the result is From of the sniffed MIME string (UNKNOWN when it *)
(* is outside the vocabulary), whatever the extension, and no warning is   *)
(* emitted; if and only if nothing matches, exactly one warn-level record  *)
(* is emitted and the result is from_extension of the extension.           *)
C5_SnifferFirst ==
    op = "from_bytes_with_fallback" =>
        LET mime == infer_get(arg.bytes) IN
        /\ mime # None =>
               /\ ret = from_str(unwrap(mime))
               /\ Warnings = 0
               /\ \A e \in FallbackExtensions :
                      from_bytes_with_fallback(arg.bytes, e).val = ret
        /\ mime = Some(<<"a","u","d","i","o","/","m","p","e","g">>) =>
               ret = "UNKNOWN"
        /\ mime = None =>
               /\ Warnings = 1
               /\ ret = from_extension(arg.extension)
        /\ Warnings \in {0, 1}

C5_Witness ==
    /\ op = "from_bytes_with_fallback"
    /\ arg.bytes = <<255, 216, 187, 187>>
    /\ arg.extension = <<"p","n","g">>
    /\ ret = "PNG"
    /\ Warnings = 1

(* C6: from_path returns no error.  A failed read is treated like "no       *)
(* signature matched": the result is from_extension of the path's own      *)
(* extension, a missing or non-UTF-8 extension counting as the empty       *)
(* string and so giving UNKNOWN.  When the read succeeds and a signature   *)
(* matches, the result is From of the sniffed MIME string, whatever the    *)
(* extension.                                                              *)
C6_FromPath ==
    op = "from_path" =>
        LET noExt == arg.extension = None \/ ~unwrap(arg.extension).utf8
            ext == IF noExt THEN <<>> ELSE unwrap(arg.extension).str
        IN
        /\ error = None
        /\ arg.file = None =>
               /\ ret = from_extension(ext)
               /\ noExt => ret = "UNKNOWN"
               /\ ret = from_path([file |-> Some(<<>>),
                                   extension |-> arg.extension]).val
        /\ (arg.file # None /\ infer_get(unwrap(arg.file)) # None) =>
               ret = from_str(unwrap(infer_get(unwrap(arg.file))))

C6_Witness ==
    /\ op = "from_path"
    /\ arg.file = None
    /\ arg.extension = Some(OsStr(TRUE, <<"C","b","Z">>))
    /\ ret = "COMIC_ZIP"

(* C7: from_bytes uses the sniffer only.  With no signature matched the     *)
(* result is UNKNOWN; with one matched it is From of the sniffed MIME      *)
(* string: PNG for bytes beginning 89 50 4E 47, JPEG for bytes beginning   *)
(* FF D8 FF, UNKNOWN for a MIME string outside the vocabulary.  No error   *)
(* is returned.                                                            *)
C7_FromBytes ==
    op = "from_bytes" =>
        LET mime == infer_get(arg) IN
        /\ error = None
        /\ mime = None => ret = "UNKNOWN"
        /\ mime # None => ret = from_str(unwrap(mime))
        /\ starts_with(arg, <<137, 80, 78, 71>>) => ret = "PNG"
        /\ starts_with(arg, <<255, 216, 255>>) => ret = "JPEG"
        /\ mime = Some(<<"a","u","d","i","o","/","m","p","e","g">>) =>
               ret = "UNKNOWN"

C7_Witness ==
    op = "from_bytes" /\ arg = <<255, 216, 255, 187>> /\ ret = "JPEG"

(* C8: is_image is true iff the canonical MIME string begins with "image/", *)
(* which is exactly the set PNG, JPEG, WEBP, AVIF, GIF.                    *)
C8_IsImage ==
    op = "is_image" =>
        /\ ret <=> starts_with(fmt(arg), <<"i","m","a","g","e","/">>)
        /\ ret <=> arg \in Images

C8_Witness ==
    op = "is_image" /\ arg = "WEBP" /\ ret = TRUE

(* C9: try_from succeeds exactly for the variants on which is_image is      *)
(* true, each mapped to the same-named format; for every other variant it  *)
(* returns an error whose message contains the variant's name; no other    *)
(* operation returns an error.                                             *)
C9_TryFrom ==
    /\ op = "try_from" =>
           /\ ret # None <=> is_image(arg)
           /\ is_image(arg) =>
                  (arg \in Images /\ ret = Some(SameNamedFormat(arg)) /\ error = None)
           /\ ~is_image(arg) =>
                  /\ ret = None
                  /\ error # None
                  /\ Contains(unwrap(error).message, <<"ContentType::", arg>>)
    /\ op # "try_from" => error = None

C9_Witness ==
    /\ op = "try_from"
    /\ arg = "PDF"
    /\ error # None
    /\ Contains(unwrap(error).message, <<"ContentType::", "PDF">>)

(* C10: is_opds_legacy_image is true only for PNG, JPEG and GIF; it is      *)
(* false for WEBP and AVIF although is_image is true for them; so it       *)
(* implies is_image and the converse fails.                                *)
C10_OpdsLegacyImage ==
    op = "is_opds_legacy_image" =>
        /\ ret <=> arg \in {"PNG", "JPEG", "GIF"}
        /\ ret => is_image(arg)
        /\ arg \in {"WEBP", "AVIF"} => (~ret /\ is_image(arg))

C10_Witness ==
    op = "is_opds_legacy_image" /\ arg = "WEBP" /\ ret = FALSE

====
